---- MODULE Spec2Model ----
(***************************************************************************)
(* python-jtl (jtl/__init__.py): the XML and CSV parsers of JMeter result  *)
(* logs, their generators of Sample records, and the parser factory.       *)
(***************************************************************************)
EXTENDS Integers, Sequences, FiniteSets, TLC

VARIABLES
    table,         \* the module-level dict CSV_FIELDNAMES
    mode,          \* which parser class the behaviour is about: "xml", "csv", "factory"
    doc,           \* the XML source document (events, tags, attributes, error point)
    inst,          \* the parser instance: "new", "ready", "raised" (constructor failed)
    built,         \* number of events iterparse has parsed into the tree and queued
    pos,           \* number of events taken from self.context
    rootAttrib,    \* attributes of self.root
    rootChildren,  \* children of self.root
    version,       \* self.version
    csvfile,       \* the CSV source file: does it exist, and its rows
    gens,          \* the generators returned by http_samples(), in call order
    disk,          \* factory: the file on disk (path and first line)
    made           \* factory: outcome of create_parser

vars == <<table, mode, doc, inst, built, pos, rootAttrib, rootChildren, version,
          csvfile, gens, disk, made>>

xmlVars == <<doc, inst, built, pos, rootAttrib, rootChildren, version>>
factoryVars == <<disk, made>>

(* ------------------------------ bounds --------------------------------- *)
MaxElems == 3      \* elements in an XML document, root included
MaxSeqs == 2       \* http_samples() calls on one parser
MaxCols == 2       \* columns in a CSV header (rows have up to MaxCols + 1 cells)
MaxRows == 2       \* rows after the header line of a CSV file
MaxLineLen == 6    \* characters in the first line seen by create_parser

(* ------------------------------ values --------------------------------- *)
\* Python values held by dicts and Sample fields: None, a str, a list of str.
None == [k |-> "None", v |-> <<>>]
Str(s) == [k |-> "str", v |-> <<s>>]
List(xs) == [k |-> "list", v |-> xs]

Digit == <<"1", "2", "3", "4", "5", "6", "7", "8", "9">>

\* dict.get(key) / Element.get(key): the value, None when the key is absent
Get(d, key) == IF key \in DOMAIN d THEN d[key] ELSE None

EmptyDict == [x \in {} |-> None]

(* ------------------------------ Sample --------------------------------- *)
Sample_fields ==
    <<"by", "de", "dt", "ec", "hn", "it", "lb", "lt", "na",
      "ng", "rc", "rm", "s", "sc", "t", "tn", "ts">>

FieldSet == {Sample_fields[i] : i \in 1..Len(Sample_fields)}

\* variant: the idle-time code given a CSV column
CSV_FIELDNAMES_idle ==
    [f \in FieldSet |->
        CASE f = "by" -> Str("bytes")
          [] f = "dt" -> Str("dataType")
          [] f = "it" -> Str("IdleTime")
          [] f = "lb" -> Str("label")
          [] f = "lt" -> Str("Latency")
          [] f = "rc" -> Str("responseCode")
          [] f = "rm" -> Str("responseMessage")
          [] f = "s" -> Str("success")
          [] f = "t" -> Str("elapsed")
          [] f = "tn" -> Str("threadName")
          [] f = "ts" -> Str("timeStamp")
          [] OTHER -> None]

CSV_FIELDNAMES ==
    [f \in FieldSet |->
        CASE f = "by" -> Str("bytes")
          [] f = "de" -> None
          [] f = "dt" -> Str("dataType")
          [] f = "ec" -> None
          [] f = "hn" -> None
          [] f = "it" -> None
          [] f = "lb" -> Str("label")
          [] f = "lt" -> Str("Latency")
          [] f = "na" -> None
          [] f = "ng" -> None
          [] f = "rc" -> Str("responseCode")
          [] f = "rm" -> Str("responseMessage")
          [] f = "s" -> Str("success")
          [] f = "sc" -> None
          [] f = "t" -> Str("elapsed")
          [] f = "tn" -> Str("threadName")
          [] f = "ts" -> Str("timeStamp")]

(* ------------------------- XML source documents ------------------------ *)
\* A document is the sequence of start/end events of its elements (numbered
\* in the order of their opening tags), the tag and attributes of each, and
\* errAt: -1 when well formed, else the number of events that precede the
\* first offending token.
Starts(kinds, p) == Cardinality({i \in 1..p : kinds[i] = "start"})
Depth(kinds, p) == Starts(kinds, p) - (p - Starts(kinds, p))

IsShape(kinds) ==
    /\ \A p \in 1..(Len(kinds) - 1) : Depth(kinds, p) >= 1
    /\ Depth(kinds, Len(kinds)) = 0

Shapes(n) == {k \in [1..(2 * n) -> {"start", "end"}] : IsShape(k)}

\* the position of the start event that the end event at position p closes
Opener(kinds, p) ==
    CHOOSE q \in 1..(p - 1) :
        /\ kinds[q] = "start"
        /\ Depth(kinds, q) = Depth(kinds, p) + 1
        /\ \A r \in (q + 1)..(p - 1) : Depth(kinds, r) > Depth(kinds, p)

\* the element an event is about
ElemAt(kinds, p) ==
    IF kinds[p] = "start" THEN Starts(kinds, p)
    ELSE Starts(kinds, Opener(kinds, p))

StartPos(kinds, el) == CHOOSE p \in 1..Len(kinds) : kinds[p] = "start" /\ Starts(kinds, p) = el
EndPos(kinds, el) == CHOOSE p \in 1..Len(kinds) : kinds[p] = "end" /\ ElemAt(kinds, p) = el

Tags == {"httpSample", "testResults"}

\* attributes written on element el: distinct values per element
AttribOf(tag, el) ==
    IF tag = "httpSample"
    THEN [a \in {"t", "s", "lb"} |->
            CASE a = "t" -> Str(Digit[el] \o "20")
              [] a = "s" -> Str("true")
              [] a = "lb" -> Str("Home" \o Digit[el])]
    ELSE [a \in {"version", "t"} |->
            CASE a = "version" -> Str("1." \o Digit[el])
              [] a = "t" -> Str("9")]

Docs ==
    UNION {
        { [kinds |-> k, tag |-> tg, errAt |-> e] :
            k \in Shapes(n), tg \in [1..n -> Tags], e \in (-1)..(2 * n) }
        : n \in 1..MaxElems }

NoDoc == [kinds |-> <<>>, tag |-> <<>>, errAt |-> -1]

\* events the incremental parse can deliver before it ends or fails
Avail(d) == IF d.errAt = -1 THEN Len(d.kinds) ELSE d.errAt

HttpSamples(d) == {el \in 1..Len(d.tag) : d.tag[el] = "httpSample"}

(* ------------------------------ XMLParser ------------------------------ *)
\* The tree builder appends an element to its parent when its opening tag is
\* parsed: the children the root gains while events (from+1)..to are parsed.
RECURSIVE NewRootChildren(_, _, _)
NewRootChildren(kinds, from, to) ==
    IF from >= to THEN <<>>
    ELSE LET p == from + 1
             here == IF kinds[p] = "start" /\ Depth(kinds, p) = 2
                     THEN <<ElemAt(kinds, p)>> ELSE <<>>
         IN  here \o NewRootChildren(kinds, p, to)

\* variant: an empty string for an attribute the element omits
XmlSample_empty(attrib) ==
    [f \in FieldSet |-> IF f \in DOMAIN attrib THEN attrib[f] ELSE Str("")]

\* Sample(**dict((attr, elem.get(attr)) for attr in Sample._fields))
XmlSample(attrib) == [f \in FieldSet |-> Get(attrib, f)]

\* attributes of the element object at the time they are read
ElemAttrib(el) == IF el = 1 THEN rootAttrib ELSE AttribOf(doc.tag[el], el)

(* ------------------------------ generators ----------------------------- *)
\* A generator object returned by http_samples(): where its frame stands
\* ("created": body not entered, "running": inside the for loop,
\* "suspended": at the yield, "done", "failed", "closed"), the Samples it
\* has handed out (rec: the element or file line each came from), and for
\* CSVParser the frame's file handle and csv.DictReader.
NewGen ==
    [st |-> "created", out |-> <<>>, fp |-> "unopened", line_num |-> 0,
     fieldnames |-> None]

NoneRunning == \A g \in 1..Len(gens) : gens[g].st # "running"

\* XMLParser.__init__: start the incremental parse, take its first event
\* (the root's opening tag) and record the root's version attribute.
XMLParser_init ==
    /\ mode = "xml"
    /\ inst = "new"
    /\ \/ /\ Avail(doc) = 0
          /\ inst' = "raised"
          /\ UNCHANGED <<built, pos, rootAttrib, rootChildren, version>>
       \/ /\ Avail(doc) > 0
          /\ \E b \in 1..Avail(doc) :
                /\ built' = b
                /\ rootChildren' = NewRootChildren(doc.kinds, 0, b)
          /\ pos' = 1
          /\ rootAttrib' = AttribOf(doc.tag[1], 1)
          /\ version' = Get(AttribOf(doc.tag[1], 1), "version")
          /\ inst' = "ready"
    /\ UNCHANGED <<table, mode, doc, csvfile, gens, factoryVars>>

\* variant: every call starts the event stream over
XMLParser_http_samples_reparse ==
    /\ mode = "xml"
    /\ inst = "ready"
    /\ NoneRunning
    /\ Len(gens) < MaxSeqs
    /\ gens' = Append(gens, NewGen)
    /\ pos' = 1
    /\ UNCHANGED <<table, mode, doc, inst, built, rootAttrib, rootChildren,
                   version, csvfile, factoryVars>>

\* XMLParser.http_samples(): calling a generator function runs none of it
XMLParser_http_samples ==
    /\ mode = "xml"
    /\ inst = "ready"
    /\ NoneRunning
    /\ Len(gens) < MaxSeqs
    /\ gens' = Append(gens, NewGen)
    /\ UNCHANGED <<table, mode, xmlVars, csvfile, factoryVars>>

\* variant: the root is never cleared
RootClear_skip == UNCHANGED <<rootChildren, rootAttrib>>

\* root.clear(): drops the root's children and its attributes
RootClear ==
    /\ rootChildren' = <<>>
    /\ rootAttrib' = EmptyDict

\* variant: the Sample is yielded at the opening tag
XmlLoopTurn_start(g) ==
    \/ /\ pos < Avail(doc)
       /\ \E b \in (IF pos < built THEN {built} ELSE (built + 1)..Avail(doc)) :
            LET p == pos + 1
                elem == ElemAt(doc.kinds, p)
                grown == rootChildren \o NewRootChildren(doc.kinds, built, b)
            IN  /\ built' = b
                /\ pos' = p
                /\ IF doc.kinds[p] = "start" /\ doc.tag[elem] = "httpSample"
                   THEN /\ gens' = [gens EXCEPT
                                ![g].st = "suspended",
                                ![g].out = Append(@, [rec |-> elem,
                                    sample |-> XmlSample(ElemAttrib(elem))])]
                        /\ rootChildren' = grown
                        /\ UNCHANGED rootAttrib
                   ELSE /\ gens' = [gens EXCEPT ![g].st = "running"]
                        /\ RootClear
    \/ /\ pos = Avail(doc)
       /\ doc.errAt # -1
       /\ gens' = [gens EXCEPT ![g].st = "failed"]
       /\ UNCHANGED <<built, pos, rootAttrib, rootChildren>>
    \/ /\ pos = Avail(doc)
       /\ doc.errAt = -1
       /\ gens' = [gens EXCEPT ![g].st = "done"]
       /\ UNCHANGED <<built, pos, rootAttrib, rootChildren>>

\* One turn of "for event, elem in self.context": take the next event from
\* iterparse (which, when its queue is empty, reads a chunk of the source
\* and parses all of it into the tree before delivering the first event),
\* then run the loop body up to the yield or through root.clear().
XmlLoopTurn(g) ==
    \/ /\ pos < Avail(doc)
       /\ \E b \in (IF pos < built THEN {built} ELSE (built + 1)..Avail(doc)) :
            LET p == pos + 1
                elem == ElemAt(doc.kinds, p)
                grown == rootChildren \o NewRootChildren(doc.kinds, built, b)
            IN  /\ built' = b
                /\ pos' = p
                /\ IF doc.kinds[p] = "end" /\ doc.tag[elem] = "httpSample"
                   THEN /\ gens' = [gens EXCEPT
                                ![g].st = "suspended",
                                ![g].out = Append(@, [rec |-> elem,
                                    sample |-> XmlSample(ElemAttrib(elem))])]
                        /\ rootChildren' = grown
                        /\ UNCHANGED rootAttrib
                   ELSE /\ gens' = [gens EXCEPT ![g].st = "running"]
                        /\ RootClear
    \/ /\ pos = Avail(doc)
       /\ doc.errAt # -1
       /\ gens' = [gens EXCEPT ![g].st = "failed"]
       /\ UNCHANGED <<built, pos, rootAttrib, rootChildren>>
    \/ /\ pos = Avail(doc)
       /\ doc.errAt = -1
       /\ gens' = [gens EXCEPT ![g].st = "done"]
       /\ UNCHANGED <<built, pos, rootAttrib, rootChildren>>

\* first next() on a generator: enter the body and run the first loop turn
XmlStart(g) ==
    /\ mode = "xml"
    /\ NoneRunning
    /\ gens[g].st = "created"
    /\ XmlLoopTurn(g)
    /\ UNCHANGED <<table, mode, doc, inst, version, csvfile, factoryVars>>

\* next() on a generator suspended at the yield: the loop body resumes with
\* self.root.clear()
XmlResume(g) ==
    /\ mode = "xml"
    /\ NoneRunning
    /\ gens[g].st = "suspended"
    /\ gens' = [gens EXCEPT ![g].st = "running"]
    /\ RootClear
    /\ UNCHANGED <<table, mode, doc, inst, built, pos, version, csvfile, factoryVars>>

\* the running generator goes round its loop once more
XmlStep(g) ==
    /\ mode = "xml"
    /\ gens[g].st = "running"
    /\ XmlLoopTurn(g)
    /\ UNCHANGED <<table, mode, doc, inst, version, csvfile, factoryVars>>

\* generator.close() by the consumer: GeneratorExit at the yield (or before
\* the body was entered); the body has no handler, the frame ends
XmlClose(g) ==
    /\ mode = "xml"
    /\ NoneRunning
    /\ gens[g].st \in {"created", "suspended"}
    /\ gens' = [gens EXCEPT ![g].st = "closed"]
    /\ UNCHANGED <<table, mode, xmlVars, csvfile, factoryVars>>

NoFile == [exists |-> FALSE, lines |-> <<>>]
NoDisk == [path |-> "", line |-> <<>>]
NoMade == [status |-> "none", cls |-> "", source |-> ""]

InitXml ==
    /\ table = CSV_FIELDNAMES
    /\ mode = "xml"
    /\ doc \in Docs
    /\ inst = "new"
    /\ built = 0
    /\ pos = 0
    /\ rootAttrib = EmptyDict
    /\ rootChildren = <<>>
    /\ version = None
    /\ csvfile = NoFile
    /\ gens = <<>>
    /\ disk = NoDisk
    /\ made = NoMade

NextXml ==
    \/ XMLParser_init
    \/ XMLParser_http_samples
    \/ \E g \in 1..Len(gens) : XmlStart(g)
    \/ \E g \in 1..Len(gens) : XmlResume(g)
    \/ \E g \in 1..Len(gens) : XmlStep(g)
    \/ \E g \in 1..Len(gens) : XmlClose(g)

SpecXml == InitXml /\ [][NextXml]_vars

(* --------------------------- CSV source files -------------------------- *)
\* A file is the sequence of rows csv.reader makes of its lines; bad marks a
\* line on which csv.reader raises csv.Error.  Every cell holds a text of
\* its own, so a value taken from the wrong row or column shows.
HeaderNames == {"elapsed", "de"}

CellText(i, c) == "r" \o Digit[i] \o "c" \o Digit[c]

BadRow == [bad |-> TRUE, cells |-> <<>>]
Row(cells) == [bad |-> FALSE, cells |-> cells]

HeaderRows ==
    {BadRow} \cup UNION {{Row(h) : h \in [1..n -> HeaderNames]} : n \in 0..MaxCols}

\* the row on line i with n cells (n = -1: a line csv.reader rejects)
DataRow(i, n) == IF n = -1 THEN BadRow ELSE Row([c \in 1..n |-> CellText(i, c)])

Files ==
    {[exists |-> FALSE, lines |-> <<>>], [exists |-> TRUE, lines |-> <<>>]}
    \cup UNION {
        { [exists |-> TRUE,
           lines |-> <<h>> \o [j \in 1..m |-> DataRow(j + 1, ns[j])]] :
            h \in HeaderRows, ns \in [1..m -> (-1)..(MaxCols + 1)] }
        : m \in 0..MaxRows }

(* ------------------------------ csv.DictReader ------------------------- *)
\* next(self.reader) after n lines were read
ReaderNext(lines, n) ==
    IF n >= Len(lines) THEN [res |-> "StopIteration", n |-> n]
    ELSE IF lines[n + 1].bad THEN [res |-> "Error", n |-> n + 1]
    ELSE [res |-> "row", n |-> n + 1]

\* variant: blank rows are returned like any other
SkipBlank_keep(lines, r) == r

\* "while row == []: row = next(self.reader)"
RECURSIVE SkipBlank(_, _)
SkipBlank(lines, r) ==
    IF r.res = "row" /\ lines[r.n].cells = <<>>
    THEN SkipBlank(lines, ReaderNext(lines, r.n))
    ELSE r

Min(a, b) == IF a < b THEN a ELSE b

Put(d, key, val) == [x \in (DOMAIN d) \cup {key} |-> IF x = key THEN val ELSE d[x]]

\* dict(zip(fieldnames, row)): a later pair with the same key wins
ZipDict(fn, row) ==
    LET m == Min(Len(fn), Len(row))
    IN  [key \in {Str(fn[i]) : i \in 1..m} |->
            Str(row[CHOOSE i \in 1..m :
                        /\ Str(fn[i]) = key
                        /\ \A j \in (i + 1)..m : Str(fn[j]) # key])]

restkey == None
restval == None

\* the dict DictReader returns for a row: cells beyond the header go, as a
\* list, under restkey; header columns beyond the row get restval
RowDict(fn, row) ==
    LET d == ZipDict(fn, row)
        lf == Len(fn)
        lr == Len(row)
    IN  IF lf < lr THEN Put(d, restkey, List(SubSeq(row, lf + 1, lr)))
        ELSE IF lf > lr
        THEN [key \in (DOMAIN d) \cup {Str(fn[i]) : i \in (lr + 1)..lf} |->
                IF key \in {Str(fn[i]) : i \in (lr + 1)..lf} THEN restval ELSE d[key]]
        ELSE d

\* DictReader.next(): [res, line_num, fieldnames, d]
DictReader_next(lines, line_num, fieldnames) ==
    LET hd == IF line_num = 0 /\ fieldnames = None
              THEN ReaderNext(lines, 0)
              ELSE [res |-> "kept", n |-> line_num]
        fn == IF hd.res = "row" THEN List(lines[hd.n].cells) ELSE fieldnames
        r == SkipBlank(lines, ReaderNext(lines, hd.n))
    IN  IF hd.res = "Error"
        THEN [res |-> "Error", line_num |-> hd.n, fieldnames |-> fn, d |-> EmptyDict]
        ELSE IF r.res = "row"
        THEN [res |-> "row", line_num |-> r.n, fieldnames |-> fn,
              d |-> RowDict(fn.v, lines[r.n].cells)]
        ELSE [res |-> r.res, line_num |-> r.n, fieldnames |-> fn, d |-> EmptyDict]

(* ------------------------------ CSVParser ------------------------------ *)
\* Sample(**dict((attr, row.get(CSV_FIELDNAMES[attr])) for attr in Sample._fields))
CsvSample(d) == [f \in FieldSet |-> Get(d, table[f])]

\* CSVParser.__init__: keeps the source name, nothing else
CSVParser_init ==
    /\ mode = "csv"
    /\ inst = "new"
    /\ inst' = "ready"
    /\ UNCHANGED <<table, mode, doc, built, pos, rootAttrib, rootChildren,
                   version, csvfile, gens, factoryVars>>

\* CSVParser.http_samples(): calling a generator function runs none of it
CSVParser_http_samples ==
    /\ mode = "csv"
    /\ inst = "ready"
    /\ Len(gens) < MaxSeqs
    /\ gens' = Append(gens, NewGen)
    /\ UNCHANGED <<table, mode, xmlVars, csvfile, factoryVars>>

\* variant: csv.Error ends the loop like StopIteration
CsvLoopTurn_swallow(gen) ==
    LET r == DictReader_next(csvfile.lines, gen.line_num, gen.fieldnames)
    IN  IF r.res = "row"
        THEN [gen EXCEPT !.st = "suspended", !.fp = "open",
                         !.line_num = r.line_num, !.fieldnames = r.fieldnames,
                         !.out = Append(@, [rec |-> r.line_num, sample |-> CsvSample(r.d)])]
        ELSE [gen EXCEPT !.st = "done", !.fp = "closed",
                         !.line_num = r.line_num, !.fieldnames = r.fieldnames]

\* what one turn of "for row in reader" makes of generator gen, the file
\* being open: a Sample at the yield, or the end of the with block (which
\* closes fp) on StopIteration and on csv.Error
CsvLoopTurn(gen) ==
    LET r == DictReader_next(csvfile.lines, gen.line_num, gen.fieldnames)
    IN  IF r.res = "row"
        THEN [gen EXCEPT !.st = "suspended", !.fp = "open",
                         !.line_num = r.line_num, !.fieldnames = r.fieldnames,
                         !.out = Append(@, [rec |-> r.line_num, sample |-> CsvSample(r.d)])]
        ELSE [gen EXCEPT !.st = IF r.res = "Error" THEN "failed" ELSE "done",
                         !.fp = "closed",
                         !.line_num = r.line_num, !.fieldnames = r.fieldnames]

\* first next(): open(self.source, 'rb') (IOError when it cannot be opened),
\* csv.DictReader(fp), first loop turn
CsvStart(g) ==
    /\ mode = "csv"
    /\ gens[g].st = "created"
    /\ gens' = [gens EXCEPT ![g] =
                    IF csvfile.exists THEN CsvLoopTurn(@)
                    ELSE [@ EXCEPT !.st = "failed"]]
    /\ UNCHANGED <<table, mode, xmlVars, csvfile, factoryVars>>

\* next() on a generator suspended at the yield: next loop turn
CsvResume(g) ==
    /\ mode = "csv"
    /\ gens[g].st = "suspended"
    /\ gens' = [gens EXCEPT ![g] = CsvLoopTurn(@)]
    /\ UNCHANGED <<table, mode, xmlVars, csvfile, factoryVars>>

\* variant: the file is opened outside any with block
CsvClose_leak(g) ==
    /\ mode = "csv"
    /\ gens[g].st \in {"created", "suspended"}
    /\ gens' = [gens EXCEPT ![g].st = "closed"]
    /\ UNCHANGED <<table, mode, xmlVars, csvfile, factoryVars>>

\* generator.close(): GeneratorExit at the yield leaves the with block,
\* which closes fp; a generator never started has opened nothing
CsvClose(g) ==
    /\ mode = "csv"
    /\ gens[g].st \in {"created", "suspended"}
    /\ gens' = [gens EXCEPT ![g].st = "closed",
                            ![g].fp = IF @ = "open" THEN "closed" ELSE @]
    /\ UNCHANGED <<table, mode, xmlVars, csvfile, factoryVars>>

InitCsv ==
    /\ table = CSV_FIELDNAMES
    /\ mode = "csv"
    /\ doc = NoDoc
    /\ inst = "new"
    /\ built = 0
    /\ pos = 0
    /\ rootAttrib = EmptyDict
    /\ rootChildren = <<>>
    /\ version = None
    /\ csvfile \in Files
    /\ gens = <<>>
    /\ disk = NoDisk
    /\ made = NoMade

NextCsv ==
    \/ CSVParser_init
    \/ CSVParser_http_samples
    \/ \E g \in 1..Len(gens) : CsvStart(g)
    \/ \E g \in 1..Len(gens) : CsvResume(g)
    \/ \E g \in 1..Len(gens) : CsvClose(g)

SpecCsv == InitCsv /\ [][NextCsv]_vars

\* a parser of either class, on any source
Init == InitXml \/ InitCsv
Next == NextXml \/ NextCsv
Spec == Init /\ [][Next]_vars

(* ------------------------------ create_parser -------------------------- *)
Chars == {"<", "?", "x", "m", "l", " "}

FirstLines == UNION {[1..n -> Chars] : n \in 0..MaxLineLen}

Paths == {"results.jtl", "absent.jtl"}

\* variant: the prefix found anywhere in the line
startswith_find(line, prefix) ==
    \E k \in 0..(Len(line) - Len(prefix)) :
        SubSeq(line, k + 1, k + Len(prefix)) = prefix

\* str.startswith
startswith(line, prefix) ==
    /\ Len(line) >= Len(prefix)
    /\ SubSeq(line, 1, Len(prefix)) = prefix

\* open the source, read its first line, construct the parser on the same
\* source.  open() raises IOError for a source that cannot be opened, and
\* XMLParser(source) raises when the document has no root element to
\* deliver (what follows the first line is not part of this state).
create_parser(source) ==
    /\ mode = "factory"
    /\ made.status = "none"
    /\ IF source # disk.path
       THEN made' = [status |-> "raised", cls |-> "IOError", source |-> source]
       ELSE IF startswith(disk.line, <<"<", "?", "x", "m", "l">>)
       THEN \/ made' = [status |-> "returned", cls |-> "XMLParser", source |-> source]
            \/ made' = [status |-> "raised", cls |-> "ParseError", source |-> source]
       ELSE made' = [status |-> "returned", cls |-> "CSVParser", source |-> source]
    /\ UNCHANGED <<table, mode, xmlVars, csvfile, gens, disk>>

InitFactory ==
    /\ table = CSV_FIELDNAMES
    /\ mode = "factory"
    /\ doc = NoDoc
    /\ inst = "new"
    /\ built = 0
    /\ pos = 0
    /\ rootAttrib = EmptyDict
    /\ rootChildren = <<>>
    /\ version = None
    /\ csvfile = NoFile
    /\ gens = <<>>
    /\ disk \in [path : {"results.jtl"}, line : FirstLines]
    /\ made = NoMade

NextFactory == \E source \in Paths : create_parser(source)

SpecFactory == InitFactory /\ [][NextFactory]_vars

(* ======================================================================= *)
(* Properties                                                              *)
(* ======================================================================= *)
Gens == 1..Len(gens)
Recs(g) == {gens[g].out[i].rec : i \in 1..Len(gens[g].out)}
Entries == UNION {{<<g, i>> : i \in 1..Len(gens[g].out)} : g \in Gens}
EntryOf(x) == gens[x[1]].out[x[2]]
WellFormed == doc.errAt = -1
Exhausted == pos = Len(doc.kinds)
AllNone == [f \in FieldSet |-> None]
Written(el) == [f \in FieldSet |->
                  IF f \in DOMAIN AttribOf(doc.tag[el], el)
                  THEN AttribOf(doc.tag[el], el)[f] ELSE None]

\* every httpSample element of a document read to its end has been yielded
\* exactly once, and nothing else has
OnePerHttpSample ==
    (mode = "xml" /\ WellFormed /\ Exhausted /\ NoneRunning) =>
        /\ \A el \in HttpSamples(doc) :
              Cardinality({x \in Entries : EntryOf(x).rec = el}) = 1
        /\ \A x \in Entries : EntryOf(x).rec \in HttpSamples(doc)

\* C1 as stated: one Sample per httpSample element of the document, none for
\* any other element, and the fields of each Sample equal the attributes
\* written on its element, None for the omitted ones.
C1_AsStated ==
    /\ OnePerHttpSample
    /\ mode = "xml" => \A x \in Entries : EntryOf(x).sample = Written(EntryOf(x).rec)

\* C1 amended: one Sample per httpSample element, none for any other; the
\* fields equal the element's attributes (None when omitted) for every
\* httpSample element but the root; a root httpSample with child elements
\* yields a Sample whose fields are all None, a childless one its attributes.
C1_Samples ==
    /\ OnePerHttpSample
    /\ mode = "xml" => \A x \in Entries :
          LET e == EntryOf(x)
          IN  /\ e.rec # 1 => e.sample = Written(e.rec)
              /\ (e.rec = 1 /\ Len(doc.kinds) > 2) => e.sample = AllNone
              /\ (e.rec = 1 /\ Len(doc.kinds) = 2) => e.sample = Written(1)

\* a drained document with an httpSample nested in an httpSample under a
\* root of another tag
C1_Witness ==
    /\ mode = "xml" /\ WellFormed /\ Exhausted
    /\ Len(gens) = 1 /\ gens[1].st = "done"
    /\ Len(gens[1].out) = 2
    /\ doc.tag[1] = "testResults"
    /\ gens[1].out[1].sample["t"] = Str("220")
    /\ gens[1].out[1].sample["de"] = None
    /\ gens[1].out[2].sample["lb"] = Str("Home3")

(* ------------------------------ C6 ------------------------------------- *)
\* C6 as stated: a sequence yields the httpSample elements in the order of
\* their opening tags, nested ones included.
C6_AsStated ==
    mode = "xml" => \A g \in Gens : \A i, j \in 1..Len(gens[g].out) :
        i < j => gens[g].out[i].rec < gens[g].out[j].rec

Inside(a, b) ==
    /\ StartPos(doc.kinds, b) < StartPos(doc.kinds, a)
    /\ EndPos(doc.kinds, a) < EndPos(doc.kinds, b)

\* C6 amended: a sequence yields the httpSample elements in the order of
\* their closing tags; that is the order of the opening tags for any two
\* elements of which the earlier-yielded is not nested in the other, while
\* an httpSample nested in another is yielded before the one enclosing it.
C6_ClosingOrder ==
    mode = "xml" => \A g \in Gens : \A i, j \in 1..Len(gens[g].out) :
        i < j =>
            LET a == gens[g].out[i].rec
                b == gens[g].out[j].rec
            IN  /\ EndPos(doc.kinds, a) < EndPos(doc.kinds, b)
                /\ IF Inside(a, b) THEN b < a ELSE a < b

\* a nested httpSample was yielded before the httpSample around it
C6_Witness ==
    /\ mode = "xml"
    /\ \E g \in Gens :
          /\ Len(gens[g].out) = 2
          /\ gens[g].out[1].rec = 3
          /\ gens[g].out[2].rec = 2
          /\ Inside(3, 2)

(* ------------------------------ C10 ------------------------------------ *)
RecordedVersion ==
    inst = "ready" =>
        version = (IF "version" \in DOMAIN AttribOf(doc.tag[1], 1)
                   THEN AttribOf(doc.tag[1], 1)["version"] ELSE None)

\* C10 as stated: the root has no children after every event handled, none
\* either whenever a sequence rests at its yield, and self.version keeps
\* the value read at construction.
C10_AsStated ==
    mode = "xml" =>
        /\ \A g \in Gens : gens[g].st \in {"running", "suspended"} => rootChildren = <<>>
        /\ RecordedVersion

\* C10 amended: the root has no children after every event handled (the
\* loop body ran through root.clear()), and self.version keeps the value
\* read at construction; while a sequence rests at its yield the root can
\* hold children, but only elements the incremental parser has read ahead,
\* whose opening-tag events have not been handled yet.
C10_Cleared ==
    mode = "xml" =>
        /\ \A g \in Gens : gens[g].st = "running" => rootChildren = <<>>
        /\ \A g \in Gens : gens[g].st = "suspended" =>
              \A c \in 1..Len(rootChildren) :
                  StartPos(doc.kinds, rootChildren[c]) > pos
        /\ RecordedVersion

\* the root was cleared, attributes included, and the version is still there
C10_Witness ==
    /\ mode = "xml"
    /\ \E g \in Gens : gens[g].st = "running" /\ Len(gens[g].out) > 0
    /\ rootAttrib = EmptyDict
    /\ rootChildren = <<>>
    /\ version = Str("1.1")
    /\ pos > 3

(* ------------------------------ C2, C3 --------------------------------- *)
BadLines == {i \in 1..Len(csvfile.lines) : csvfile.lines[i].bad}
\* lines after the header that the reader reaches before any line it rejects
DataLines == {i \in 2..Len(csvfile.lines) : \A b \in BadLines : i < b}
NonBlankLines == {i \in DataLines : csvfile.lines[i].cells # <<>>}

\* the lines of S a generator has passed
Passed(S, g) ==
    IF gens[g].st \in {"done", "failed"} /\ csvfile.exists THEN S
    ELSE IF gens[g].out = <<>> THEN {}
    ELSE {i \in S : i <= gens[g].out[Len(gens[g].out)].rec}

\* the last column of the header named name, 0 when there is none
LastCol(name) ==
    LET h == csvfile.lines[1].cells
        at == {i \in 1..Len(h) : h[i] = name}
    IN  IF at = {} THEN 0 ELSE CHOOSE i \in at : \A j \in at : j <= i

MappedFieldsRight ==
    \A x \in Entries : \A f \in FieldSet :
        table[f] # None =>
            LET row == csvfile.lines[EntryOf(x).rec].cells
                c == LastCol(table[f].v[1])
            IN  EntryOf(x).sample[f] =
                    (IF c = 0 \/ c > Len(row) THEN None ELSE Str(row[c]))

RowsYielded(S) ==
    \A g \in Gens :
        /\ \A i, j \in 1..Len(gens[g].out) : i < j => gens[g].out[i].rec < gens[g].out[j].rec
        /\ Recs(g) = Passed(S, g)

\* C2 as stated: the header is never yielded, every row after it yields one
\* Sample, in row order, and each field with a CSV column holds the row's
\* value in that column, None when the header lacks the column or the row
\* is too short.
C2_AsStated == mode = "csv" => RowsYielded(DataLines) /\ MappedFieldsRight

\* C2 amended: the header is never yielded, every row after it that is not
\* blank yields one Sample, in row order (blank rows yield nothing), and
\* each field with a CSV column holds the row's value in the last column of
\* that name, None when the header lacks the column or the row is too short
\* to reach it.
C2_NonBlankRows == mode = "csv" => RowsYielded(NonBlankLines) /\ MappedFieldsRight

\* a drained file: blank line, then a row too short for the elapsed column,
\* then a full row
C2_Witness ==
    /\ mode = "csv"
    /\ Len(csvfile.lines) = 3
    /\ csvfile.lines[1].cells = <<"de", "elapsed">>
    /\ Len(csvfile.lines[2].cells) = 1
    /\ Len(csvfile.lines[3].cells) = 2
    /\ \E g \in Gens :
          /\ gens[g].st = "done"
          /\ Len(gens[g].out) = 2
          /\ gens[g].out[1].sample["t"] = None
          /\ gens[g].out[2].sample["t"] = Str("r3c2")

\* C3: in every Sample of a CSV sequence, each field whose code has no CSV
\* column in the table is None, whatever the row holds.
C3_AsStated ==
    mode = "csv" => \A x \in Entries : \A f \in FieldSet :
        table[f] = None => EntryOf(x).sample[f] = None

(* ------------------------------ C5 ------------------------------------- *)
NoEquivalent == {f \in DOMAIN table : table[f] = None}

TableShape(none) ==
    /\ DOMAIN table = FieldSet
    /\ Cardinality(DOMAIN table) = 17
    /\ NoEquivalent = none
    /\ \A f \in (DOMAIN table) \ none : table[f].k = "str"

\* C5 as stated: 17 entries, exactly de, ec, hn, na, ng, sc without a CSV
\* column, a column header for every other code.
C5_AsStated == TableShape({"de", "ec", "hn", "na", "ng", "sc"})

\* C5 amended: 17 entries, exactly the seven codes de, ec, hn, it, na, ng,
\* sc without a CSV column, a column header for each of the other ten, and
\* no operation changes the table.
C5_Table ==
    /\ [](TableShape({"de", "ec", "hn", "it", "na", "ng", "sc"}))
    /\ [][table' = table]_vars

\* the table after a CSV sequence has used it
C5_Witness ==
    /\ mode = "csv"
    /\ \E g \in Gens : gens[g].st = "done" /\ Len(gens[g].out) = 2
    /\ table["it"] = None
    /\ table["t"] = Str("elapsed")

(* ------------------------------ C4 ------------------------------------- *)
\* C4: create_parser returns an XMLParser exactly when the first line
\* begins with the characters < ? x m l, a CSVParser otherwise, on the
\* source it inspected.
C4_Detection ==
    made.status = "returned" =>
        /\ made.cls \in {"XMLParser", "CSVParser"}
        /\ made.cls = "XMLParser" <=>
              /\ Len(disk.line) >= 5
              /\ disk.line[1] = "<" /\ disk.line[2] = "?" /\ disk.line[3] = "x"
              /\ disk.line[4] = "m" /\ disk.line[5] = "l"
        /\ made.source = disk.path

\* a declaration after a leading blank goes to the CSV parser
C4_Witness ==
    /\ made.status = "returned"
    /\ made.cls = "CSVParser"
    /\ disk.line = <<" ", "<", "?", "x", "m", "l">>

(* ------------------------------ C7 ------------------------------------- *)
\* C7: no file is open before the first pull on a sequence, and none is
\* open once the sequence is exhausted, has failed or was closed.
C7_Handle ==
    mode = "csv" =>
        /\ inst = "new" => gens = <<>>
        /\ \A g \in Gens :
              /\ gens[g].st = "created" => gens[g].fp = "unopened"
              /\ gens[g].st \in {"done", "failed", "closed"} => gens[g].fp # "open"
              /\ gens[g].fp = "open" => gens[g].st = "suspended"

\* a sequence closed by the consumer after one of two rows
C7_Witness ==
    /\ mode = "csv"
    /\ NonBlankLines = {2, 3}
    /\ \E g \in Gens :
          /\ gens[g].st = "closed"
          /\ gens[g].fp = "closed"
          /\ Len(gens[g].out) = 1

(* ------------------------------ C8 ------------------------------------- *)
NoRepeat(X) == \A x, y \in X : x # y => EntryOf(x).rec # EntryOf(y).rec

\* C8 as stated: over all the sequences of one parser, no source record is
\* yielded twice.
C8_AsStated == NoRepeat(Entries)

\* C8 amended: an XMLParser yields each httpSample element at most once
\* over all its sequences, and once its event stream is at its end no
\* sequence yields anything; a CSVParser yields each row at most once per
\* sequence, every http_samples() call reading the file again from its
\* first row.
C8_SinglePass ==
    /\ [](/\ mode = "xml" => NoRepeat(Entries)
          /\ mode = "csv" => \A g \in Gens : NoRepeat({x \in Entries : x[1] = g}))
    /\ [][(mode = "xml" /\ pos = Avail(doc)) =>
            \A g \in 1..Len(gens') :
                Len(gens'[g].out) = (IF g \in Gens THEN Len(gens[g].out) ELSE 0)]_vars

\* two sequences of one XMLParser that shared the document, both at its end
C8_Witness ==
    /\ mode = "xml"
    /\ Len(gens) = 2
    /\ gens[1].st = "done" /\ Len(gens[1].out) = 1
    /\ gens[2].st = "done" /\ Len(gens[2].out) = 1

(* ------------------------------ C9 ------------------------------------- *)
Preceding ==
    IF mode = "xml"
    THEN {el \in HttpSamples(doc) : EndPos(doc.kinds, el) <= doc.errAt}
    ELSE NonBlankLines

\* C9: a sequence fails exactly when the source does (it never ends as if
\* exhausted), by then the records before the failure point have been
\* yielded and no others, a failed sequence never changes again, and what a
\* sequence has handed out stays as it was.
C9_Failure ==
    /\ [](\A g \in Gens :
            /\ gens[g].st = "failed" =>
                 IF mode = "xml" THEN UNION {Recs(h) : h \in Gens} = Preceding
                 ELSE IF csvfile.exists THEN Recs(g) = Preceding
                 ELSE gens[g].out = <<>>
            /\ gens[g].st = "done" =>
                 IF mode = "xml" THEN WellFormed ELSE BadLines = {})
    /\ [][\A g \in Gens :
            /\ gens[g].st = "failed" => gens'[g] = gens[g]
            /\ SubSeq(gens'[g].out, 1, Len(gens[g].out)) = gens[g].out]_vars

\* a CSV sequence that failed on its third line after yielding the second
C9_Witness ==
    /\ mode = "csv"
    /\ BadLines = {3}
    /\ \E g \in Gens :
          /\ gens[g].st = "failed"
          /\ Len(gens[g].out) = 1
          /\ gens[g].fp = "closed"

====
